---- MODULE Spec2Model ----
(***************************************************************************)
(* Model of the task orchestration engine of src/main.py: the SecurityState *)
(* aggregate, the scope check, the tool runner, the plan / execute /        *)
(* analyze / retry workflow and the audit report.                           *)
(*                                                                          *)
(* Python strings are TLA+ strings (TLC evaluates Len, SubSeq and \o on     *)
(* them).  Python dicts are records; a key that a dict lacks is a field     *)
(* outside the record's DOMAIN.                                             *)
(*                                                                          *)
(* The workflow hands every node, and the retry decision, the one           *)
(* SecurityState object: what a step assigns is what the next step reads.   *)
(* An exception in a step leaves app.invoke, and run_security_scan, with    *)
(* that exception: pc = "raised".                                           *)
(***************************************************************************)
EXTENDS Integers, Sequences, FiniteSets, TLC

(* ------------------------------ bounds -------------------------------- *)

\* Largest reading of the wall clock (datetime.datetime.now()).
MaxClock == 2

\* Calls of generate_audit_reports on one final state: the one made by
\* run_security_scan and those a caller makes afterwards on the returned state.
MaxReports == 2

(* -------------------------- program constants ------------------------- *)

\* SecurityState.max_retries default.
DefaultMaxRetries == 3

\* Python's None.  No string of the model equals it.
None == "<None>"

\* current_task = None.
Null == [null |-> TRUE]

\* {} : the dict without keys.
EmptyDict == <<>>

(* ------------------------------ strings ------------------------------- *)

UpperLetters == "ABCDEFGHIJKLMNOPQRSTUVWXYZ"
LowerLetters == "abcdefghijklmnopqrstuvwxyz"

\* One character of str.lower().
LowerChar(c) ==
    IF \E i \in 1..Len(UpperLetters) : SubSeq(UpperLetters, i, i) = c
    THEN LET i == CHOOSE k \in 1..Len(UpperLetters) : SubSeq(UpperLetters, k, k) = c
         IN  SubSeq(LowerLetters, i, i)
    ELSE c

\* str.lower()
RECURSIVE lower(_)
lower(s) ==
    IF s = "" THEN ""
    ELSE LowerChar(SubSeq(s, 1, 1)) \o lower(SubSeq(s, 2, Len(s)))

\* Python's  a in b  on two strings: a occurs in b as a contiguous piece.
Contains(a, b) ==
    \E i \in 0..(Len(b) - Len(a)) : SubSeq(b, i + 1, i + Len(a)) = a

\* dict.get(key, default)
Get(d, key, default) == IF key \in DOMAIN d THEN d[key] ELSE default

(* ------------------------------- inputs ------------------------------- *)

\* Instructions a caller passes to run_security_scan.
Instructions ==
    { "Scan example.com for open ports and discover directories",
      "Scan example.com for open ports",
      "SCAN PORTS",
      "list directories",
      "check the ports",
      "hello",
      "" }

\* Scopes a caller passes to run_security_scan.
Scopes ==
    { <<>>, <<"example.com">>, <<"a.io", "example.com">> }

\* Targets of the tasks a caller hands to the execute node directly.
Targets == { "example.com", "sub.example.com", "example", "evil.org", "" }

\* A pending task for a tool and a target, as a caller of the nodes builds it.
CallerTask(tool, target) ==
    [ tool    |-> tool,
      command |-> (tool \o " ") \o target,
      target  |-> target,
      status  |-> "pending" ]

CallerTasks ==
    { CallerTask("nmap", t) : t \in Targets }
        \cup { CallerTask("gobuster", t) : t \in {"example.com", "evil.org"} }

\* Task lists of a caller-built SecurityState.
CallerTaskLists ==
    { <<>> } \cup { <<t>> : t \in CallerTasks }
             \cup { <<t, u>> : t \in CallerTasks, u \in CallerTasks }

\* What subprocess.run can do with a command: exit with a return code and
\* captured streams, exceed the timeout, or fail to run at all.
Outcomes ==
    { [kind |-> "exit", returncode |-> 0, stdout |-> "22/tcp open", stderr |-> ""],
      [kind |-> "exit", returncode |-> 0, stdout |-> "80/tcp open", stderr |-> ""],
      [kind |-> "exit", returncode |-> 0, stdout |-> "443/tcp open", stderr |-> "warn"],
      [kind |-> "exit", returncode |-> 1, stdout |-> "", stderr |-> "Failed to resolve"],
      [kind |-> "exit", returncode |-> 2, stdout |-> "80/tcp open", stderr |-> "Out-of-scope host"],
      [kind |-> "timeout"],
      [kind |-> "fault", message |-> "[Errno 8] Exec format error"] }

(* ------------------------------- state -------------------------------- *)

VARIABLES
    task_list,          \* SecurityState.task_list
    executed_tasks,     \* SecurityState.executed_tasks
    scope,              \* SecurityState.scope
    scope_violations,   \* SecurityState.scope_violations
    current_task,       \* SecurityState.current_task
    retries,            \* SecurityState.retries
    max_retries,        \* SecurityState.max_retries
    instruction,        \* the instruction argument of run_security_scan
    pc,                 \* the node the workflow is at
    raised,             \* the exception that ended the run, "" if none
    now,                \* the wall clock
    scope_checks,       \* the calls of is_within_scope: target and verdict
    spawned,            \* the commands handed to subprocess.run, each with
                        \* what the process then did
    reports             \* the structured reports written to audit_report.json

vars == << task_list, executed_tasks, scope, scope_violations, current_task,
           retries, max_retries, instruction, pc, raised, now, scope_checks,
           spawned, reports >>

(* ----------------------------- Scope Guard ---------------------------- *)

\* A scope test that forgets the second containment (target in scope_item).
ScopeItemMatches_OneWay(scope_item, target) == Contains(scope_item, target)

\* The test of one scope entry:  scope_item in target or target in scope_item.
ScopeItemMatches(scope_item, target) ==
    Contains(scope_item, target) \/ Contains(target, scope_item)

\* is_within_scope: the loop over the scope list, returning at the first match.
RECURSIVE is_within_scope(_, _)
is_within_scope(target, sc) ==
    IF sc = <<>> THEN FALSE
    ELSE IF ScopeItemMatches(Head(sc), target) THEN TRUE
    ELSE is_within_scope(target, Tail(sc))

(* ----------------------------- Tool Runner ---------------------------- *)

\* The result of a task the Scope Guard rejects.
ViolationResult(task, t) ==
    [ tool      |-> task.tool,
      command   |-> task.command,
      status    |-> "failed",
      error     |-> "Out-of-scope command attempted: " \o task.command,
      timestamp |-> t ]

\* A result that reports the captured standard error whatever the exit code.
ProcessResult_AlwaysStderr(task, o, t) ==
    CASE o.kind = "exit" ->
           [ tool      |-> task.tool,
             command   |-> task.command,
             status    |-> IF o.returncode = 0 THEN "success" ELSE "failed",
             output    |-> o.stdout,
             error     |-> o.stderr,
             timestamp |-> t ]
      [] o.kind = "timeout" ->
           [ tool      |-> task.tool,
             command   |-> task.command,
             status    |-> "failed",
             error     |-> "Command timed out after 300 seconds",
             timestamp |-> t ]
      [] OTHER ->
           [ tool      |-> task.tool,
             command   |-> task.command,
             status    |-> "failed",
             error     |-> o.message,
             timestamp |-> t ]

\* The result of a task whose command was handed to subprocess.run, which
\* did o.
ProcessResult(task, o, t) ==
    CASE o.kind = "exit" ->
           [ tool      |-> task.tool,
             command   |-> task.command,
             status    |-> IF o.returncode = 0 THEN "success" ELSE "failed",
             output    |-> o.stdout,
             error     |-> IF o.returncode # 0 THEN o.stderr ELSE None,
             timestamp |-> t ]
      [] o.kind = "timeout" ->
           [ tool      |-> task.tool,
             command   |-> task.command,
             status    |-> "failed",
             error     |-> "Command timed out after 300 seconds",
             timestamp |-> t ]
      [] OTHER ->
           [ tool      |-> task.tool,
             command   |-> task.command,
             status    |-> "failed",
             error     |-> o.message,
             timestamp |-> t ]

\* A tool runner without the scope check in front of subprocess.run.
execute_security_tool_NoGuard(task, sc, o, t) ==
    [ result |-> ProcessResult(task, o, t), spawned |-> << [command |-> task.command, outcome |-> o] >> ]

\* execute_security_tool(task, scope), with o the behaviour of the external
\* process (used only when one is spawned) and t the clock at return:
\* the result it returns and the commands it handed to subprocess.run (with
\* what the process did).
execute_security_tool(task, sc, o, t) ==
    IF ~ is_within_scope(task.target, sc)
    THEN [ result |-> ViolationResult(task, t), spawned |-> <<>> ]
    ELSE [ result |-> ProcessResult(task, o, t), spawned |-> << [command |-> task.command, outcome |-> o] >> ]

(* ------------------------------- Planner ------------------------------ *)

\* "scan" in instruction.lower() and "ports" in instruction.lower()
WantsPortScan(instr) ==
    Contains("scan", lower(instr)) /\ Contains("ports", lower(instr))

\* "directories" in instruction.lower()
WantsDirectories(instr) == Contains("directories", lower(instr))

\* The nmap task of plan_tasks.
PortScanTask(sc) ==
    [ tool    |-> "nmap",
      command |-> "nmap -p 1-1000 " \o sc[1],
      target  |-> sc[1],
      status  |-> "pending" ]

\* The gobuster task of plan_tasks.
PlanDirectoryTask(sc) ==
    [ tool    |-> "gobuster",
      command |-> ("gobuster dir -u http://" \o sc[1]) \o " -w common.txt",
      target  |-> sc[1],
      status  |-> "pending" ]

\* The instruction plan_tasks reads from the seeded task_list.
SeededInstruction(tl) == IF tl # <<>> THEN tl[1].instruction ELSE ""

\* state.task_list as plan_tasks leaves it (scope non-empty where a task is
\* built).
PlannedTaskList(tl, sc) ==
    LET instr  == SeededInstruction(tl)
        first  == IF WantsPortScan(instr) THEN << PortScanTask(sc) >> ELSE tl
    IN  IF WantsDirectories(instr) THEN Append(first, PlanDirectoryTask(sc))
        ELSE first

\* The exception plan_tasks raises, "" if none: scope[0] of an empty scope,
\* task_list[0] of an empty task list.
PlanRaises(tl, sc) ==
    LET instr == SeededInstruction(tl)
    IN  IF (WantsPortScan(instr) \/ WantsDirectories(instr)) /\ sc = <<>>
        THEN "IndexError"
        ELSE IF tl = <<>> /\ ~ WantsPortScan(instr) /\ ~ WantsDirectories(instr)
        THEN "IndexError"
        ELSE ""

(* ---------------------------- execute node ---------------------------- *)

\* The keys execute_security_tool reads from the task: a missing one is a
\* KeyError.
TaskKeys == {"command", "tool", "target"}

\* "Out-of-scope" in result.get("error", "")  (for an error that is a string).
SignalsViolation(result) == Contains("Out-of-scope", Get(result, "error", ""))

\* A filter that drops the task just executed, as if its status had been set.
PendingTasks_DropsExecuted(tl) == Tail(tl)

\* [t for t in task_list if t["status"] == "pending"]
PendingTasks(tl) == SelectSeq(tl, LAMBDA t : t.status = "pending")

\* task_list[0] if task_list else None
FirstOrNone(tl) == IF tl # <<>> THEN tl[1] ELSE Null

\* A result that replaces the list instead of being appended to it.
AppendResult_Overwrites(et, result) == << result >>

\* state.executed_tasks.append(result)
AppendResult(et, result) == Append(et, result)

\* The exception execute_task raises after appending result, "" if none:
\* the membership test on an error that is None, then t["status"] of a
\* dict without that key.
ExecuteRaises(result, tl) ==
    IF Get(result, "error", "") = None THEN "TypeError"
    ELSE IF \E i \in 1..Len(tl) : "status" \notin DOMAIN tl[i] THEN "KeyError"
    ELSE ""

execute_task ==
    /\ pc = "execute"
    /\ IF current_task = Null
       THEN /\ pc' = "analyze"
            /\ UNCHANGED << task_list, executed_tasks, scope_violations,
                            current_task, raised, scope_checks, spawned >>
       ELSE IF ~ (TaskKeys \subseteq DOMAIN current_task)
       THEN /\ pc' = "raised"
            /\ raised' = "KeyError"
            /\ UNCHANGED << task_list, executed_tasks, scope_violations,
                            current_task, scope_checks, spawned >>
       ELSE \E o \in Outcomes :
              LET call   == execute_security_tool(current_task, scope, o, now)
                  result == call.result
                  exc    == ExecuteRaises(result, task_list)
              IN  /\ executed_tasks' = AppendResult(executed_tasks, result)
                  /\ scope_checks' =
                        Append(scope_checks,
                               [ target  |-> current_task.target,
                                 verdict |-> is_within_scope(current_task.target, scope) ])
                  /\ spawned' = spawned \o call.spawned
                  /\ scope_violations' =
                        IF exc # "TypeError" /\ SignalsViolation(result)
                        THEN Append(scope_violations, result.error)
                        ELSE scope_violations
                  /\ IF exc # ""
                     THEN /\ pc' = "raised"
                          /\ raised' = exc
                          /\ UNCHANGED << task_list, current_task >>
                     ELSE /\ task_list' = PendingTasks(task_list)
                          /\ current_task' = FirstOrNone(task_list')
                          /\ pc' = "analyze"
                          /\ UNCHANGED raised
    /\ UNCHANGED << scope, retries, max_retries, instruction, now, reports >>

(* ---------------------------- analyze node ---------------------------- *)

\* executed_tasks[-1] if executed_tasks else {}
LastResult(et) == IF et # <<>> THEN et[Len(et)] ELSE EmptyDict

\* The Analyzer's rule: the last result is a successful nmap run whose output
\* holds "80" or "443".
FoundWebPort(last_result) ==
    /\ Get(last_result, "tool", None) = "nmap"
    /\ Get(last_result, "status", None) = "success"
    /\ \/ Contains("80", Get(last_result, "output", ""))
       \/ Contains("443", Get(last_result, "output", ""))

\* The gobuster task of analyze_and_update.
AnalyzeDirectoryTask(sc) ==
    [ tool    |-> "gobuster",
      command |-> ("gobuster dir -u http://" \o sc[1]) \o " -w common.txt",
      target  |-> sc[1],
      status  |-> "pending" ]

analyze_and_update ==
    /\ pc = "analyze"
    /\ IF FoundWebPort(LastResult(executed_tasks))
       THEN IF scope = <<>>
            THEN /\ pc' = "raised"
                 /\ raised' = "IndexError"
                 /\ UNCHANGED task_list
            ELSE /\ task_list' = Append(task_list, AnalyzeDirectoryTask(scope))
                 /\ pc' = "route"
                 /\ UNCHANGED raised
       ELSE /\ pc' = "route"
            /\ UNCHANGED << task_list, raised >>
    /\ UNCHANGED << executed_tasks, scope, scope_violations, current_task,
                    retries, max_retries, instruction, now, scope_checks,
                    spawned, reports >>

(* -------------------------- Retry Controller -------------------------- *)

\* A retry test that is off by one (<= for <).
ShouldRetry_OffByOne(last_result, r, m) ==
    Get(last_result, "status", None) = "failed" /\ r <= m

\* last_result.get("status") == "failed" and state.retries < state.max_retries
ShouldRetry(last_result, r, m) ==
    Get(last_result, "status", None) = "failed" /\ r < m

\* The exception of the log line's state.current_task['command'], "" if none.
RetryLogRaises(ct) ==
    IF ct = Null THEN "TypeError"
    ELSE IF "command" \notin DOMAIN ct THEN "KeyError"
    ELSE ""

\* The conditional edge after analyze: "execute" goes back to the execute
\* node, "continue" ends the workflow.
handle_failure ==
    /\ pc = "route"
    /\ IF ShouldRetry(LastResult(executed_tasks), retries, max_retries)
       THEN /\ retries' = retries + 1
            /\ IF RetryLogRaises(current_task) # ""
               THEN /\ pc' = "raised"
                    /\ raised' = RetryLogRaises(current_task)
               ELSE /\ pc' = "execute"
                    /\ UNCHANGED raised
       ELSE /\ pc' = "done"
            /\ UNCHANGED << retries, raised >>
    /\ UNCHANGED << task_list, executed_tasks, scope, scope_violations,
                    current_task, max_retries, instruction, now, scope_checks,
                    spawned, reports >>

(* ------------------------------ plan node ----------------------------- *)

plan_tasks ==
    /\ pc = "plan"
    /\ IF PlanRaises(task_list, scope) # ""
       THEN /\ pc' = "raised"
            /\ raised' = PlanRaises(task_list, scope)
            /\ UNCHANGED << task_list, current_task >>
       ELSE /\ task_list' = PlannedTaskList(task_list, scope)
            /\ current_task' = task_list'[1]
            /\ pc' = "execute"
            /\ UNCHANGED raised
    /\ UNCHANGED << executed_tasks, scope, scope_violations, retries,
                    max_retries, instruction, now, scope_checks, spawned,
                    reports >>

(* ---------------------------- Report Builder -------------------------- *)

\* A report that stamps every executed task with the time of the report.
AuditReport_Restamped(sc, et, sv, t) ==
    [ timestamp        |-> t,
      target_scope     |-> sc,
      executed_tasks   |-> [ i \in 1..Len(et) |-> [ et[i] EXCEPT !.timestamp = t ] ],
      scope_violations |-> sv ]

\* audit_report: the dict that json.dump writes, built at clock reading t.
AuditReport(sc, et, sv, t) ==
    [ timestamp        |-> t,
      target_scope     |-> sc,
      executed_tasks   |-> et,
      scope_violations |-> sv ]

\* run_security_scan after app.invoke returned: it builds the reports and
\* returns the final state.
generate_audit_reports ==
    /\ pc = "done"
    /\ reports' = Append(reports,
                         AuditReport(scope, executed_tasks, scope_violations, now))
    /\ pc' = "returned"
    /\ UNCHANGED << task_list, executed_tasks, scope, scope_violations,
                    current_task, retries, max_retries, instruction, raised,
                    now, scope_checks, spawned >>

\* The caller calls generate_audit_reports again on the state it received.
CallerReportsAgain ==
    /\ pc = "returned"
    /\ Len(reports) < MaxReports
    /\ reports' = Append(reports,
                         AuditReport(scope, executed_tasks, scope_violations, now))
    /\ UNCHANGED << task_list, executed_tasks, scope, scope_violations,
                    current_task, retries, max_retries, instruction, pc,
                    raised, now, scope_checks, spawned >>

(* -------------------------------- clock ------------------------------- *)

\* Time passes between two readings of datetime.datetime.now().
Tick ==
    /\ now < MaxClock
    /\ pc # "raised"
    /\ now' = now + 1
    /\ UNCHANGED << task_list, executed_tasks, scope, scope_violations,
                    current_task, retries, max_retries, instruction, pc,
                    raised, scope_checks, spawned, reports >>

(* --------------------------- specifications --------------------------- *)

\* run_security_scan(instruction, scope): the state it builds.
Init ==
    /\ instruction \in Instructions
    /\ scope \in Scopes
    /\ task_list = << [instruction |-> instruction] >>
    /\ executed_tasks = <<>>
    /\ scope_violations = <<>>
    /\ current_task = Null
    /\ retries = 0
    /\ max_retries = DefaultMaxRetries
    /\ pc = "plan"
    /\ raised = ""
    /\ now = 0
    /\ scope_checks = <<>>
    /\ spawned = <<>>
    /\ reports = <<>>

Next ==
    \/ plan_tasks
    \/ execute_task
    \/ analyze_and_update
    \/ handle_failure
    \/ generate_audit_reports
    \/ CallerReportsAgain
    \/ Tick

Spec == Init /\ [][Next]_vars

\* The nodes from execute on, for a SecurityState a caller builds itself (as
\* a test of execute_task does): any pending tasks, any targets, current_task
\* the first of them.
InitNodes ==
    /\ instruction = ""
    /\ scope \in Scopes
    /\ task_list \in CallerTaskLists
    /\ executed_tasks = <<>>
    /\ scope_violations = <<>>
    /\ current_task = FirstOrNone(task_list)
    /\ retries = 0
    /\ max_retries = DefaultMaxRetries
    /\ pc = "execute"
    /\ raised = ""
    /\ now = 0
    /\ scope_checks = <<>>
    /\ spawned = <<>>
    /\ reports = <<>>

NextNodes ==
    \/ execute_task
    \/ analyze_and_update
    \/ handle_failure

SpecNodes == InitNodes /\ [][NextNodes]_vars

(* ------------------------------- claims ------------------------------ *)

\* The states in which the workflow has ended normally.
Finished == pc \in {"done", "returned"}

\* C1: for every instruction and every non-empty scope, whatever the external
\* tool does, no step of plan, execute, analyze or the retry decision raises
\* an error that aborts the run.
C1_NoStepRaises == scope # <<>> => pc # "raised"

\* The states in which a node of the workflow can take its step: each node
\* is enabled by the place of control alone.
NodeEnabled == pc \in {"plan", "execute", "analyze", "route"}

\* C2: for every instruction and every sequence of tool outcomes the run
\* stops only at DONE (in any other state a node can take the next step), and
\* it gets there within the executions the retry budget allows: there is no
\* endless loop between execute and analyze.
C2_StopsOnlyAtDone ==
    scope # <<>> =>
       /\ Finished \/ NodeEnabled
       /\ Len(executed_tasks) <= max_retries + 1

\* C3: retries is between 0 and max_retries in every reachable state, and no
\* step decreases it.
C3_RetriesBounded ==
    /\ [](retries \in 0..max_retries)
    /\ [][retries' >= retries]_vars

\* C3 witness: the budget is used up and a further failed result ended the run.
C3_Witness ==
    /\ pc = "done"
    /\ retries = max_retries
    /\ LastResult(executed_tasks).status = "failed"

\* The executions the Scope Guard rejected.
Rejected == { i \in 1..Len(scope_checks) : ~ scope_checks[i].verdict }

\* C4: a task whose target fails the Scope Guard is never handed to
\* subprocess.run (only the accepted executions spawned a process, each its
\* own command), and its result has status failed and the error
\* "Out-of-scope command attempted: " followed by the task's command.
C4_RejectedNeverSpawned ==
    /\ Len(scope_checks) = Len(executed_tasks)
    /\ Len(spawned) = Len(scope_checks) - Cardinality(Rejected)
    /\ \A i \in Rejected :
          /\ executed_tasks[i].status = "failed"
          /\ executed_tasks[i].error =
                "Out-of-scope command attempted: " \o executed_tasks[i].command
          /\ "output" \notin DOMAIN executed_tasks[i]

\* C4 witness: an out-of-scope task was executed (and rejected) more than once.
C4_Witness ==
    /\ Cardinality(Rejected) >= 2
    /\ spawned = <<>>

\* C5: every rejected execution added exactly one entry to scope_violations,
\* and every entry of scope_violations is the error of a failed result of a
\* rejected execution: nothing else adds a violation.
C5_ViolationsAreRejections ==
    /\ Len(scope_violations) = Cardinality(Rejected)
    /\ \A k \in 1..Len(scope_violations) :
          \E i \in Rejected :
             /\ executed_tasks[i].status = "failed"
             /\ executed_tasks[i].error = scope_violations[k]

\* C6: is_within_scope(t, S) is true exactly if some element of S is a
\* substring of t or t is a substring of some element of S (so never for an
\* empty S), for every call the execute node made.
C6_ScopeGuardIsContainment ==
    \A i \in 1..Len(scope_checks) :
       scope_checks[i].verdict <=>
          \E k \in 1..Len(scope) :
             \/ Contains(scope[k], scope_checks[i].target)
             \/ Contains(scope_checks[i].target, scope[k])

\* C6 witness: a target accepted only because it is a piece of the second
\* scope entry.
C6_Witness ==
    /\ Len(scope) = 2
    /\ \E i \in 1..Len(scope_checks) :
          /\ scope_checks[i].verdict
          /\ \A k \in 1..Len(scope) : ~ Contains(scope[k], scope_checks[i].target)
          /\ ~ Contains(scope_checks[i].target, scope[1])

\* The task list the Planner is specified to produce.
SpecifiedPlan(instr, sc) ==
    (IF WantsPortScan(instr) THEN << PortScanTask(sc) >> ELSE <<>>)
       \o (IF WantsDirectories(instr) THEN << PlanDirectoryTask(sc) >> ELSE <<>>)

\* The state right after the plan node.
JustPlanned == pc = "execute" /\ executed_tasks = <<>>

\* C7: after PLAN task_list holds only pending tasks: the port scan iff the
\* instruction has "scan" and "ports", then the directory discovery iff it has
\* "directories", and nothing else.
C7_PlanYieldsOnlyTasks ==
    (JustPlanned /\ scope # <<>>) => task_list = SpecifiedPlan(instruction, scope)

\* C8: an instruction with neither keyword set leaves task_list empty after
\* PLAN, executes nothing, records no violation and ends at DONE without an
\* error.
C8_NoKeywordRunsNothing ==
    (~ WantsPortScan(instruction) /\ ~ WantsDirectories(instruction) /\ pc # "plan")
       => /\ task_list = <<>>
          /\ executed_tasks = <<>>
          /\ scope_violations = <<>>
          /\ pc # "raised"

\* C9: once a port scan has ended with status success and "80" or "443" in
\* its output, the ANALYZE step follows that execution and leaves the
\* directory-discovery task for scope[0] at the end of task_list.
C9_AnalyzeFollowsWebPortScan ==
    FoundWebPort(LastResult(executed_tasks)) =>
       \/ pc = "analyze"
       \/ /\ pc \in {"route", "execute", "done", "returned"}
          /\ task_list # <<>>
          /\ task_list[Len(task_list)] = AnalyzeDirectoryTask(scope)

\* C10 as stated: all structured reports built from one final state are
\* identical.
C10_ReportsIdentical ==
    \A i \in 1..Len(reports) : \A j \in 1..Len(reports) : reports[i] = reports[j]

\* C10 amended: every structured report built from the final state carries
\* that state's scope, executed_tasks and scope_violations unchanged; only
\* its timestamp is the clock reading of the call that built it.
C10_ReportsAgreeButForTimestamp ==
    \A i \in 1..Len(reports) :
       /\ reports[i].target_scope = scope
       /\ reports[i].executed_tasks = executed_tasks
       /\ reports[i].scope_violations = scope_violations
       /\ reports[i].timestamp \in 0..now
       /\ DOMAIN reports[i] =
             {"timestamp", "target_scope", "executed_tasks", "scope_violations"}

\* C10 witness: two reports of one final state, built at different times.
C10_Witness ==
    /\ Len(reports) = 2
    /\ reports[1].timestamp # reports[2].timestamp
    /\ executed_tasks # <<>>

\* C11: an execute step that runs a task consumes it: afterwards the task is
\* no longer in task_list, no task of task_list has a status other than
\* pending, and current_task is the first remaining pending task, or None.
C11_ExecutedTaskConsumed ==
    [][ (pc = "execute" /\ current_task # Null /\ pc' = "analyze") =>
           /\ \A i \in 1..Len(task_list') : task_list'[i] # current_task
           /\ \A i \in 1..Len(task_list') : task_list'[i].status = "pending"
           /\ current_task' = FirstOrNone(task_list') ]_vars

\* C12: the retry decision sends the run back to execute exactly if the last
\* result failed and retries < max_retries, adding exactly one to retries;
\* otherwise the run goes to DONE with retries as it was.  The budget is the
\* run's: a run that ends on a failed result has used all of it.
C12_RetryDecision ==
    /\ [][ (pc = "route" /\ pc' # "route") =>
              IF /\ LastResult(executed_tasks) # EmptyDict
                 /\ LastResult(executed_tasks).status = "failed"
                 /\ retries < max_retries
              THEN pc' = "execute" /\ retries' = retries + 1
              ELSE pc' = "done" /\ retries' = retries ]_vars
    /\ []( (pc = "done" /\ LastResult(executed_tasks) # EmptyDict
               /\ LastResult(executed_tasks).status = "failed")
              => retries = max_retries )

\* C12 witness: the fourth failed result found the budget of three used up and
\* ended the run.
C12_Witness ==
    /\ pc = "done"
    /\ Len(executed_tasks) = max_retries + 1
    /\ \A i \in 1..Len(executed_tasks) : executed_tasks[i].status = "failed"
    /\ retries = max_retries

\* C13: control moves only along PLAN -> EXECUTE -> ANALYZE -> retry decision
\* -> (EXECUTE | DONE): every execute step is followed at once by analyze,
\* nothing follows DONE but the single report of run_security_scan, and no
\* report is built before DONE.
C13_WorkflowOrder ==
    [][ (scope # <<>> /\ pc' # pc) =>
           \/ pc = "plan"    /\ pc' = "execute" /\ executed_tasks = <<>>
           \/ pc = "execute" /\ pc' = "analyze"
           \/ pc = "analyze" /\ pc' = "route"
           \/ pc = "route"   /\ pc' \in {"execute", "done"}
           \/ pc = "done"    /\ pc' = "returned" /\ reports = <<>>
                             /\ Len(reports') = 1 ]_vars

\* C14: an execute step with a current_task appends exactly one entry to
\* executed_tasks, with the tool and command of that current_task; an execute
\* step without a current_task changes nothing of the state.
C14_OneResultPerExecute ==
    [][ (pc = "execute" /\ pc' # "execute") =>
           IF current_task = Null
           THEN UNCHANGED << task_list, executed_tasks, scope, scope_violations,
                             current_task, retries, max_retries >>
           ELSE /\ Len(executed_tasks') = Len(executed_tasks) + 1
                /\ SubSeq(executed_tasks', 1, Len(executed_tasks)) = executed_tasks
                /\ "tool" \in DOMAIN current_task
                /\ "command" \in DOMAIN current_task
                /\ LastResult(executed_tasks').tool = current_task.tool
                /\ LastResult(executed_tasks').command = current_task.command ]_vars

\* s is a prefix of t.
IsPrefix(s, t) == Len(s) <= Len(t) /\ SubSeq(t, 1, Len(s)) = s

\* C15: no step changes scope or max_retries; executed_tasks and
\* scope_violations only grow at the end; and the plan, analyze and retry
\* steps leave both unchanged.
C15_FrameAndAppendOnly ==
    [][ /\ scope' = scope
        /\ max_retries' = max_retries
        /\ IsPrefix(executed_tasks, executed_tasks')
        /\ IsPrefix(scope_violations, scope_violations')
        /\ pc \in {"plan", "analyze", "route"} =>
              UNCHANGED << executed_tasks, scope_violations >> ]_vars

\* C15 witness: a second result was appended behind a first, different one.
C15_Witness ==
    /\ Len(executed_tasks) >= 2
    /\ executed_tasks[1] # executed_tasks[2]
    /\ Len(scope_violations) = 1
    /\ pc = "route"

\* C16: for every command handed to subprocess.run the result is a record
\* that tells what the process did: status success exactly for exit code 0
\* (with no error), failed with the captured standard error for another exit
\* code, failed with "Command timed out after 300 seconds" for a timeout, and
\* failed with the fault's description for any other fault.
C16_OutcomeBecomesResult ==
    /\ Len(spawned) = Len(executed_tasks)
    /\ \A i \in 1..Len(spawned) :
          LET o == spawned[i].outcome
              r == executed_tasks[i]
          IN  /\ r.command = spawned[i].command
              /\ r.status \in {"success", "failed"}
              /\ r.status = "success" <=> (o.kind = "exit" /\ o.returncode = 0)
              /\ (o.kind = "exit" /\ o.returncode = 0) =>
                    r.error = None /\ r.output = o.stdout
              /\ (o.kind = "exit" /\ o.returncode # 0) =>
                    r.error = o.stderr /\ r.output = o.stdout
              /\ o.kind = "timeout" =>
                    r.error = "Command timed out after 300 seconds"
              /\ o.kind = "fault" => r.error = o.message

\* C16 witness: one run saw a timeout, a fault, a failing exit and at last a
\* successful exit.
C16_Witness ==
    /\ Len(spawned) = 4
    /\ \E i \in 1..4 : spawned[i].outcome.kind = "timeout"
    /\ \E i \in 1..4 : spawned[i].outcome.kind = "fault"
    /\ \E i \in 1..4 : spawned[i].outcome.kind = "exit"
                          /\ spawned[i].outcome.returncode # 0
    /\ spawned[4].outcome.kind = "exit" /\ spawned[4].outcome.returncode = 0
    /\ executed_tasks[4].status = "success"

\* C17: in a run with a non-empty scope every planned or appended task
\* targets scope[0], no execution is rejected by the Scope Guard, and
\* scope_violations stays empty.
C17_NoViolationInARun ==
    scope # <<>> =>
       /\ \A i \in 1..Len(task_list) :
             "target" \in DOMAIN task_list[i] => task_list[i].target = scope[1]
       /\ \A i \in 1..Len(scope_checks) :
             scope_checks[i].target = scope[1] /\ scope_checks[i].verdict
       /\ scope_violations = <<>>

\* C18: every entry of executed_tasks has the command of the first task of
\* the plan (the port scan, in every run that executes anything), which stays
\* at the head of task_list and stays current_task: a second task of the
\* list is never executed.
C18_OnlyFirstTaskRuns ==
    executed_tasks # <<>> =>
       /\ task_list # <<>>
       /\ scope # <<>>
       /\ task_list[1] = PortScanTask(scope)
       /\ current_task = task_list[1]
       /\ \A i \in 1..Len(task_list) : task_list[i].status = "pending"
       /\ \A i \in 1..Len(executed_tasks) :
             /\ executed_tasks[i].command = task_list[1].command
             /\ executed_tasks[i].tool = task_list[1].tool

\* C18 witness: the run ended after four executions with the planned
\* directory discovery still waiting behind the port scan.
C18_Witness ==
    /\ pc = "done"
    /\ Len(task_list) = 2
    /\ task_list[2].tool = "gobuster"
    /\ Len(executed_tasks) = 4
    /\ \A i \in 1..4 : executed_tasks[i].tool = "nmap"

\* C19: a run executes at most max_retries + 1 times: executed_tasks is never
\* longer than retries + 1, so with max_retries = 3 never longer than 4.
C19_ExecutionsBounded ==
    /\ Len(executed_tasks) <= retries + 1
    /\ Len(executed_tasks) <= max_retries + 1
    /\ max_retries = DefaultMaxRetries

\* C19 witness: the last execution the budget allows has just been made.
C19_Witness ==
    /\ pc = "analyze"
    /\ Len(executed_tasks) = max_retries + 1
    /\ retries = max_retries

====
